---------------------------- MODULE Spec2Model ----------------------------
(***************************************************************************)
(* A model of drivers/rtc/rtc-max77686.c: the RTC class operations         *)
(* (read_time, set_time, read_alarm, set_alarm, alarm_irq_enable) of the   *)
(* MAX77686 / MAX77802 / MAX77620 / MAX77714 real-time clock, the register *)
(* encode/decode they use, and the driver's suspend/resume callbacks.      *)
(*                                                                         *)
(* Every regmap call is one bus transaction and one step of the model; it  *)
(* succeeds or fails with a bus error code.  The chip's registers are a    *)
(* memory the transactions read and write.  Callers are concurrent tasks   *)
(* that each run one operation at a time.                                  *)
(***************************************************************************)
EXTENDS Integers, Sequences, FiniteSets, TLC

(***************************************************************************)
(* Bounds of the model.                                                    *)
(***************************************************************************)
NumCallers == 2

(***************************************************************************)
(* Program constants.                                                      *)
(***************************************************************************)
EINVAL == 22

RTC_UDR_SHIFT == 0
RTC_RBUDR_SHIFT == 4
ALARM_ENABLE_SHIFT == 7
ALARM_ENABLE_MASK == 128
MAX77802_ALARM_ENABLE_VALUE == 119

RTC_SEC == 0
RTC_MIN == 1
RTC_HOUR == 2
RTC_WEEKDAY == 3
RTC_MONTH == 4
RTC_YEAR == 5
RTC_MONTHDAY == 6
RTC_NR_TIME == 7

(***************************************************************************)
(* 8-bit arithmetic: the registers and the data[] buffers are u8.          *)
(***************************************************************************)
u8(x) == x % 256

RECURSIVE BitAnd(_, _)
BitAnd(a, b) ==
  IF a = 0 \/ b = 0 THEN 0
  ELSE (IF a % 2 = 1 /\ b % 2 = 1 THEN 1 ELSE 0) + 2 * BitAnd(a \div 2, b \div 2)

RECURSIVE BitOr(_, _)
BitOr(a, b) ==
  IF a = 0 THEN b
  ELSE IF b = 0 THEN a
  ELSE (IF a % 2 = 1 \/ b % 2 = 1 THEN 1 ELSE 0) + 2 * BitOr(a \div 2, b \div 2)

\* ~m for a u8 mask m
BitNot8(m) == 255 - m

RECURSIVE Shl(_, _)
Shl(x, n) == IF n = 0 THEN x ELSE Shl(2 * x, n - 1)

\* ffs(): 1-based position of the least significant set bit, 0 when x = 0
RECURSIVE ffs(_)
ffs(x) == IF x = 0 THEN 0 ELSE IF x % 2 = 1 THEN 1 ELSE 1 + ffs(x \div 2)

(***************************************************************************)
(* Model-specific configuration (struct max77686_rtc_driver_data).         *)
(* alarm_pending_status_reg is TRUE when the chip has one, FALSE for       *)
(* MAX77686_INVALID_REG; has_ae1 is map[REG_RTC_AE1] != REG_RTC_NONE.      *)
(***************************************************************************)
max77686_drv_data ==
  [delay |-> 16000, mask |-> 127, alarm_enable_reg |-> FALSE,
   rtc_irq_from_platform |-> FALSE, alarm_pending_status_reg |-> TRUE,
   has_ae1 |-> FALSE]

max77714_drv_data ==
  [delay |-> 16000, mask |-> 127, alarm_enable_reg |-> FALSE,
   rtc_irq_from_platform |-> FALSE, alarm_pending_status_reg |-> FALSE,
   has_ae1 |-> FALSE]

max77620_drv_data ==
  [delay |-> 16000, mask |-> 127, alarm_enable_reg |-> FALSE,
   rtc_irq_from_platform |-> TRUE, alarm_pending_status_reg |-> FALSE,
   has_ae1 |-> FALSE]

max77802_drv_data ==
  [delay |-> 200, mask |-> 255, alarm_enable_reg |-> TRUE,
   rtc_irq_from_platform |-> FALSE, alarm_pending_status_reg |-> TRUE,
   has_ae1 |-> TRUE]

Chips == {"max77686-rtc", "max77802-rtc", "max77620-rtc", "max77714-rtc"}

\* rtc_id[]: the platform device name selects the driver data
rtc_id(c) ==
  CASE c = "max77686-rtc" -> max77686_drv_data
    [] c = "max77802-rtc" -> max77802_drv_data
    [] c = "max77620-rtc" -> max77620_drv_data
    [] c = "max77714-rtc" -> max77714_drv_data

(***************************************************************************)
(* struct rtc_time and the register image of a time.                       *)
(***************************************************************************)
Tm(sec, min, hour, wday, mday, mon, year) ==
  [tm_sec |-> sec, tm_min |-> min, tm_hour |-> hour, tm_wday |-> wday,
   tm_mday |-> mday, tm_mon |-> mon, tm_year |-> year,
   tm_yday |-> 0, tm_isdst |-> 0]

NoTm == [none |-> TRUE]

TimeIdx == 0 .. (RTC_NR_TIME - 1)

\* a decoder that masks the day of the month with 0x0f
data_to_tm_mday4(data, drv) ==
  LET mask == drv.mask
      year == BitAnd(data[RTC_YEAR], mask)
  IN [tm_sec   |-> BitAnd(data[RTC_SEC], mask),
      tm_min   |-> BitAnd(data[RTC_MIN], mask),
      tm_hour  |-> BitAnd(data[RTC_HOUR], 31),
      tm_wday  |-> ffs(BitAnd(data[RTC_WEEKDAY], mask)) - 1,
      tm_mday  |-> BitAnd(data[RTC_MONTHDAY], 15),
      tm_mon   |-> BitAnd(data[RTC_MONTH], 15) - 1,
      tm_year  |-> IF ~drv.alarm_enable_reg THEN year + 100 ELSE year,
      tm_yday  |-> 0,
      tm_isdst |-> 0]

max77686_rtc_data_to_tm(data, drv) ==
  LET mask == drv.mask
      year == BitAnd(data[RTC_YEAR], mask)
  IN [tm_sec   |-> BitAnd(data[RTC_SEC], mask),
      tm_min   |-> BitAnd(data[RTC_MIN], mask),
      tm_hour  |-> BitAnd(data[RTC_HOUR], 31),
      tm_wday  |-> ffs(BitAnd(data[RTC_WEEKDAY], mask)) - 1,
      tm_mday  |-> BitAnd(data[RTC_MONTHDAY], 31),
      tm_mon   |-> BitAnd(data[RTC_MONTH], 15) - 1,
      tm_year  |-> IF ~drv.alarm_enable_reg THEN year + 100 ELSE year,
      tm_yday  |-> 0,
      tm_isdst |-> 0]

\* the data[] bytes max77686_rtc_tm_to_data() stores
tm_to_data_bytes(tm, drv) ==
  [i \in TimeIdx |->
     CASE i = RTC_SEC      -> u8(tm.tm_sec)
       [] i = RTC_MIN      -> u8(tm.tm_min)
       [] i = RTC_HOUR     -> u8(tm.tm_hour)
       [] i = RTC_WEEKDAY  -> u8(Shl(1, tm.tm_wday))
       [] i = RTC_MONTHDAY -> u8(tm.tm_mday)
       [] i = RTC_MONTH    -> u8(tm.tm_mon + 1)
       [] i = RTC_YEAR     -> IF drv.alarm_enable_reg THEN u8(tm.tm_year)
                              ELSE IF tm.tm_year > 100 THEN u8(tm.tm_year - 100)
                              ELSE 0]

\* an encoder that also rejects the year 2000
tm_to_data_ret_le(tm, drv) ==
  IF drv.alarm_enable_reg THEN 0
  ELSE IF tm.tm_year <= 100 THEN -EINVAL
  ELSE 0

\* the value max77686_rtc_tm_to_data() returns
tm_to_data_ret(tm, drv) ==
  IF drv.alarm_enable_reg THEN 0
  ELSE IF tm.tm_year < 100 THEN -EINVAL
  ELSE 0

max77686_rtc_tm_to_data(tm, drv) ==
  [data |-> tm_to_data_bytes(tm, drv), ret |-> tm_to_data_ret(tm, drv)]


(***************************************************************************)
(* State.                                                                  *)
(*   chip    the platform device the driver is bound to (id->driver_data)  *)
(*   times   the rtc_time values callers pass in (fixed by Init)           *)
(*   lock    info->lock: NoOwner, or the caller holding it                 *)
(*   regs    the chip's time, alarm-1 and alarm-enable registers           *)
(*   task    each caller's position, arguments, locals and results         *)
(*   gh      per caller, history of the running operation: the bus         *)
(*           transactions issued, the settle wait, lock/unlock counts      *)
(*   last_set  history: the time written by set_time while the time        *)
(*           registers still hold exactly that image                       *)
(*   warned  a "should have mutex locked" warning was printed              *)
(*   pm      suspend/resume state, IRQ disable depth and wake depth        *)
(***************************************************************************)
VARIABLES chip, times, lock, regs, task, gh, last_set, warned, pm

vars == <<chip, times, lock, regs, task, gh, last_set, warned, pm>>

Procs == 1 .. NumCallers

NoOwner == 0

drv_data == rtc_id(chip)

\* failure codes a regmap call may return (-EIO, -EREMOTEIO)
BusErrors == {-5, -121}

BusResults == {0} \cup BusErrors

NoData == [i \in TimeIdx |-> 0]

\* registers of a chip that was never set: 2000-01-01 00:00:00
PowerOnData ==
  [i \in TimeIdx |->
     CASE i = RTC_WEEKDAY -> 1 [] i = RTC_MONTH -> 1 [] i = RTC_MONTHDAY -> 1
       [] OTHER -> 0]

NoOut == [tm |-> NoTm, enabled |-> -1, pending |-> -1]

IdleTask ==
  [pc |-> "idle", stk |-> <<>>, op |-> "none", tm |-> NoTm, enabled |-> 0,
   data |-> NoData, adata |-> NoData, ret |-> 0, uop |-> "none",
   out |-> NoOut]

NoSet == [tm |-> NoTm, done |-> FALSE]

NoGhost == [log |-> <<>>, settle |-> 0, acq |-> 0, rel |-> 0, expect |-> NoTm]

\* one bus transaction: the regmap function, the register offset, the value
\* (single register) or the bytes (bulk) transferred, and the result
Tx(fn, reg, val, data, r) ==
  [fn |-> fn, reg |-> reg, val |-> val, data |-> data, ret |-> r]

\* history of a transaction: a successful update-register write leaves a
\* settle wait due (-1); any other transaction clears it
Recorded(g, e) ==
  [g EXCEPT !.log = Append(@, e),
            !.settle = IF e.fn = "regmap_update_bits" /\ e.ret = 0
                       THEN -1 ELSE 0]

(***************************************************************************)
(* struct mutex lock.                                                      *)
(***************************************************************************)
mutex_is_locked == lock # NoOwner

\* a lock that does not wait for the holder
mutex_lock_nowait(p) ==
  /\ lock' = p
  /\ gh' = [gh EXCEPT ![p].acq = @ + 1]

mutex_lock(p) ==
  /\ lock = NoOwner
  /\ lock' = p
  /\ gh' = [gh EXCEPT ![p].acq = @ + 1]

mutex_unlock(p) ==
  /\ lock' = NoOwner
  /\ gh' = [gh EXCEPT ![p].rel = @ + 1, ![p].settle = 0]

\* usleep_range(min, max) sleeps for some time in [min, max]
usleep_range(min, max) == {min, max}

\* tasks run only while the system is not suspending or resuming
Running == pm.state = "running"

\* return to the caller: pop the return position
ReturnTo(t) == [t EXCEPT !.pc = Head(t.stk), !.stk = Tail(t.stk)]

(***************************************************************************)
(* max77686_rtc_update(): set UDR or RBUDR in the update register, then    *)
(* wait for the chip.  Entered with task[p].uop set and the return         *)
(* position on top of task[p].stk.                                         *)
(***************************************************************************)
\* a driver that returns -EIO for any failure of the update-register write
update_result_eio(t, r) ==
  IF r < 0 THEN ReturnTo([t EXCEPT !.ret = -5])
  ELSE [t EXCEPT !.ret = r, !.pc = "usleep"]

\* a driver that writes the update register again when the write failed
update_result_retry(t, r) ==
  IF r < 0 THEN t
  ELSE [t EXCEPT !.ret = r, !.pc = "usleep"]

\* a driver that does not wait after writing the update register
update_result_nosleep(t, r) == ReturnTo([t EXCEPT !.ret = r])

\* after regmap_update_bits() returned r: a failure is returned at once, a
\* success is followed by the wait
update_result(t, r) ==
  IF r < 0 THEN ReturnTo([t EXCEPT !.ret = r])
  ELSE [t EXCEPT !.ret = r, !.pc = "usleep"]

max77686_rtc_update(p) ==
  /\ task[p].pc = "update"
  /\ \E r \in BusResults :
       LET data == IF task[p].uop = "WRITE" THEN Shl(1, RTC_UDR_SHIFT)
                   ELSE Shl(1, RTC_RBUDR_SHIFT)
       IN /\ gh' = [gh EXCEPT ![p] =
                      Recorded(@, Tx("regmap_update_bits", "REG_RTC_UPDATE0",
                                     data, NoData, r))]
          /\ task' = [task EXCEPT ![p] = update_result(@, r)]
  /\ UNCHANGED <<chip, times, lock, regs, last_set, warned, pm>>

max77686_rtc_update_usleep(p) ==
  /\ task[p].pc = "usleep"
  /\ \E d \in usleep_range(drv_data.delay, drv_data.delay * 2) :
       gh' = [gh EXCEPT ![p].settle = d]
  /\ task' = [task EXCEPT ![p] = ReturnTo(@)]
  /\ UNCHANGED <<chip, times, lock, regs, last_set, warned, pm>>

(***************************************************************************)
(* max77686_rtc_read_time()                                                *)
(***************************************************************************)
\* a driver that reads the registers whether or not RBUDR was written
update_failed_ignored(t) == FALSE

\* "if (ret < 0) goto out" after max77686_rtc_update(info, MAX77686_RTC_READ)
update_failed(t) == t.ret < 0

max77686_rtc_read_time_call(p) ==
  /\ Running
  /\ task[p].pc = "idle"
  /\ task' = [task EXCEPT ![p] = [IdleTask EXCEPT !.op = "read_time",
                                                  !.pc = "rt_lock"]]
  /\ UNCHANGED <<chip, times, lock, regs, gh, last_set, warned, pm>>

max77686_rtc_read_time_lock(p) ==
  /\ task[p].pc = "rt_lock"
  /\ mutex_lock(p)
  /\ task' = [task EXCEPT ![p].pc = "update", ![p].uop = "READ",
                          ![p].stk = <<"rt_read">>]
  /\ UNCHANGED <<chip, times, regs, last_set, warned, pm>>

max77686_rtc_read_time_read(p) ==
  /\ task[p].pc = "rt_read"
  /\ IF update_failed(task[p])
     THEN /\ task' = [task EXCEPT ![p].pc = "rt_out"]
          /\ UNCHANGED gh
     ELSE \E r \in BusResults :
            /\ gh' = [gh EXCEPT ![p] =
                        [Recorded(@, Tx("regmap_bulk_read", "REG_RTC_SEC", 0,
                                        IF r < 0 THEN NoData ELSE regs.time, r))
                           EXCEPT !.expect = IF r = 0 /\ last_set.done
                                             THEN last_set.tm ELSE NoTm]]
            /\ task' = IF r < 0
                       THEN [task EXCEPT ![p].ret = r, ![p].pc = "rt_out"]
                       ELSE [task EXCEPT
                               ![p].ret = r,
                               ![p].data = regs.time,
                               ![p].out.tm =
                                  max77686_rtc_data_to_tm(regs.time, drv_data),
                               ![p].pc = "rt_out"]
  /\ UNCHANGED <<chip, times, lock, regs, last_set, warned, pm>>

max77686_rtc_read_time_out(p) ==
  /\ task[p].pc = "rt_out"
  /\ mutex_unlock(p)
  /\ task' = [task EXCEPT ![p].pc = "done"]
  /\ UNCHANGED <<chip, times, regs, last_set, warned, pm>>

(***************************************************************************)
(* max77686_rtc_set_time()                                                 *)
(***************************************************************************)
max77686_rtc_set_time_call(p) ==
  /\ Running
  /\ task[p].pc = "idle"
  /\ \E tm \in times :
       LET e == max77686_rtc_tm_to_data(tm, drv_data)
       IN task' = [task EXCEPT ![p] =
                     [IdleTask EXCEPT !.op = "set_time", !.tm = tm,
                                      !.data = e.data, !.ret = e.ret,
                                      !.pc = IF e.ret < 0 THEN "done"
                                             ELSE "st_lock"]]
  /\ UNCHANGED <<chip, times, lock, regs, gh, last_set, warned, pm>>

max77686_rtc_set_time_lock(p) ==
  /\ task[p].pc = "st_lock"
  /\ mutex_lock(p)
  /\ task' = [task EXCEPT ![p].pc = "st_write"]
  /\ UNCHANGED <<chip, times, regs, last_set, warned, pm>>

\* a driver that returns from a failed write without unlocking
set_time_write_failed_return(t, r) == [t EXCEPT !.ret = r, !.pc = "done"]

\* "goto out" after regmap_bulk_write() failed
set_time_write_failed(t, r) == [t EXCEPT !.ret = r, !.pc = "st_out"]

max77686_rtc_set_time_write(p) ==
  /\ task[p].pc = "st_write"
  /\ \E r \in BusResults :
       /\ gh' = [gh EXCEPT ![p] =
                   Recorded(@, Tx("regmap_bulk_write", "REG_RTC_SEC", 0,
                                  task[p].data, r))]
       /\ IF r < 0
          THEN /\ task' = [task EXCEPT ![p] = set_time_write_failed(@, r)]
               /\ UNCHANGED <<regs, last_set>>
          ELSE /\ task' = [task EXCEPT ![p].ret = r, ![p].pc = "update",
                                       ![p].uop = "WRITE",
                                       ![p].stk = <<"st_out">>]
               /\ regs' = [regs EXCEPT !.time = task[p].data]
               /\ last_set' = [tm |-> task[p].tm, done |-> FALSE]
  /\ UNCHANGED <<chip, times, lock, warned, pm>>

max77686_rtc_set_time_out(p) ==
  /\ task[p].pc = "st_out"
  /\ mutex_unlock(p)
  /\ task' = [task EXCEPT ![p].pc = "done"]
  /\ last_set' = IF task[p].ret = 0 /\ last_set.tm # NoTm
                 THEN [last_set EXCEPT !.done = TRUE]
                 ELSE NoSet
  /\ UNCHANGED <<chip, times, regs, warned, pm>>

(***************************************************************************)
(* max77686_rtc_read_alarm()                                               *)
(***************************************************************************)
\* alrm->enabled on chips that keep the enable bit in the alarm registers
alarm_enabled_in_data(data) ==
  IF \E i \in TimeIdx : BitAnd(data[i], ALARM_ENABLE_MASK) # 0 THEN 1 ELSE 0

max77686_rtc_read_alarm_call(p) ==
  /\ Running
  /\ task[p].pc = "idle"
  /\ task' = [task EXCEPT ![p] = [IdleTask EXCEPT !.op = "read_alarm",
                                                  !.pc = "ra_lock"]]
  /\ UNCHANGED <<chip, times, lock, regs, gh, last_set, warned, pm>>

max77686_rtc_read_alarm_lock(p) ==
  /\ task[p].pc = "ra_lock"
  /\ mutex_lock(p)
  /\ task' = [task EXCEPT ![p].pc = "update", ![p].uop = "READ",
                          ![p].stk = <<"ra_read">>]
  /\ UNCHANGED <<chip, times, regs, last_set, warned, pm>>

max77686_rtc_read_alarm_read(p) ==
  /\ task[p].pc = "ra_read"
  /\ IF update_failed(task[p])
     THEN /\ task' = [task EXCEPT ![p].pc = "ra_out"]
          /\ UNCHANGED gh
     ELSE \E r \in BusResults :
            /\ gh' = [gh EXCEPT ![p] =
                        Recorded(@, Tx("regmap_bulk_read", "REG_ALARM1_SEC", 0,
                                       IF r < 0 THEN NoData ELSE regs.alarm, r))]
            /\ task' =
                 IF r < 0
                 THEN [task EXCEPT ![p].ret = r, ![p].pc = "ra_out"]
                 ELSE LET tm == max77686_rtc_data_to_tm(regs.alarm, drv_data)
                          t1 == [task[p] EXCEPT !.ret = r,
                                                !.data = regs.alarm,
                                                !.out.tm = tm,
                                                !.out.enabled = 0]
                      IN IF drv_data.alarm_enable_reg
                         THEN IF ~drv_data.has_ae1
                              THEN [task EXCEPT ![p] =
                                      [t1 EXCEPT !.ret = -EINVAL,
                                                 !.pc = "ra_out"]]
                              ELSE [task EXCEPT ![p] =
                                      [t1 EXCEPT !.pc = "ra_ae1"]]
                         ELSE [task EXCEPT ![p] =
                                 [t1 EXCEPT
                                    !.out.enabled =
                                       alarm_enabled_in_data(regs.alarm),
                                    !.out.pending = 0,
                                    !.pc = IF drv_data.alarm_pending_status_reg
                                           THEN "ra_pending" ELSE "ra_out"]]
  /\ UNCHANGED <<chip, times, lock, regs, last_set, warned, pm>>

max77686_rtc_read_alarm_ae1(p) ==
  /\ task[p].pc = "ra_ae1"
  /\ \E r \in BusResults :
       /\ gh' = [gh EXCEPT ![p] =
                   Recorded(@, Tx("regmap_read", "REG_RTC_AE1",
                                  IF r < 0 THEN 0 ELSE regs.ae1, NoData, r))]
       /\ task' =
            IF r < 0
            THEN [task EXCEPT ![p].ret = r, ![p].pc = "ra_out"]
            ELSE [task EXCEPT
                    ![p].ret = r,
                    ![p].out.enabled = IF regs.ae1 # 0 THEN 1 ELSE 0,
                    ![p].out.pending = 0,
                    ![p].pc = IF drv_data.alarm_pending_status_reg
                              THEN "ra_pending" ELSE "ra_out"]
  /\ UNCHANGED <<chip, times, lock, regs, last_set, warned, pm>>

\* the parent's STATUS2 register is not the RTC's: its value is the chip's
max77686_rtc_read_alarm_pending(p) ==
  /\ task[p].pc = "ra_pending"
  /\ \E r \in BusResults, val \in {0, 16} :
       /\ r < 0 => val = 0
       /\ gh' = [gh EXCEPT ![p] =
                   Recorded(@, Tx("regmap_read", "alarm_pending_status_reg",
                                  val, NoData, r))]
       /\ task' =
            IF r < 0
            THEN [task EXCEPT ![p].ret = r, ![p].pc = "ra_out"]
            ELSE [task EXCEPT
                    ![p].ret = r,
                    ![p].out.pending = IF BitAnd(val, Shl(1, 4)) # 0
                                       THEN 1 ELSE 0,
                    ![p].pc = "ra_out"]
  /\ UNCHANGED <<chip, times, lock, regs, last_set, warned, pm>>

max77686_rtc_read_alarm_out(p) ==
  /\ task[p].pc = "ra_out"
  /\ mutex_unlock(p)
  /\ task' = [task EXCEPT ![p].pc = "done"]
  /\ UNCHANGED <<chip, times, regs, last_set, warned, pm>>

(***************************************************************************)
(* max77686_rtc_stop_alarm(): entered with the return position on top of   *)
(* task[p].stk; its data[] buffer is task[p].adata.                        *)
(***************************************************************************)
\* tail of stop_alarm/start_alarm: on success commit with UDR; the result of
\* max77686_rtc_update() is the function's result
CommitOrReturn(t, r) ==
  IF r < 0 THEN ReturnTo([t EXCEPT !.ret = r])
  ELSE [t EXCEPT !.ret = r, !.pc = "update", !.uop = "WRITE"]

max77686_rtc_stop_alarm(p) ==
  /\ task[p].pc = "stop_alarm"
  /\ warned' = (warned \/ ~mutex_is_locked)
  /\ task' = [task EXCEPT ![p].pc = "update", ![p].uop = "READ",
                          ![p].stk = <<"sa_disable">> \o @]
  /\ UNCHANGED <<chip, times, lock, regs, gh, last_set, pm>>

stop_alarm_data(data) ==
  [i \in TimeIdx |-> BitAnd(data[i], BitNot8(ALARM_ENABLE_MASK))]

max77686_rtc_stop_alarm_disable(p) ==
  /\ task[p].pc = "sa_disable"
  /\ IF task[p].ret < 0
     THEN /\ task' = [task EXCEPT ![p] = ReturnTo(@)]
          /\ UNCHANGED <<gh, regs>>
     ELSE IF drv_data.alarm_enable_reg
     THEN IF ~drv_data.has_ae1
          THEN /\ task' = [task EXCEPT ![p] = ReturnTo([@ EXCEPT !.ret = -EINVAL])]
               /\ UNCHANGED <<gh, regs>>
          ELSE \E r \in BusResults :
                 /\ gh' = [gh EXCEPT ![p] =
                             Recorded(@, Tx("regmap_write", "REG_RTC_AE1", 0,
                                            NoData, r))]
                 /\ regs' = IF r < 0 THEN regs ELSE [regs EXCEPT !.ae1 = 0]
                 /\ task' = [task EXCEPT ![p] = CommitOrReturn(@, r)]
     ELSE \E r \in BusResults :
            /\ gh' = [gh EXCEPT ![p] =
                        Recorded(@, Tx("regmap_bulk_read", "REG_ALARM1_SEC", 0,
                                       IF r < 0 THEN NoData ELSE regs.alarm, r))]
            /\ UNCHANGED regs
            /\ task' =
                 IF r < 0
                 THEN [task EXCEPT ![p] = ReturnTo([@ EXCEPT !.ret = r])]
                 ELSE [task EXCEPT ![p].ret = r,
                                   ![p].adata = stop_alarm_data(regs.alarm),
                                   ![p].pc = "sa_write"]
  /\ UNCHANGED <<chip, times, lock, last_set, warned, pm>>

max77686_rtc_stop_alarm_write(p) ==
  /\ task[p].pc = "sa_write"
  /\ \E r \in BusResults :
       /\ gh' = [gh EXCEPT ![p] =
                   Recorded(@, Tx("regmap_bulk_write", "REG_ALARM1_SEC", 0,
                                  task[p].adata, r))]
       /\ regs' = IF r < 0 THEN regs ELSE [regs EXCEPT !.alarm = task[p].adata]
       /\ task' = [task EXCEPT ![p] = CommitOrReturn(@, r)]
  /\ UNCHANGED <<chip, times, lock, last_set, warned, pm>>

(***************************************************************************)
(* max77686_rtc_start_alarm(): entered like max77686_rtc_stop_alarm().     *)
(***************************************************************************)
max77686_rtc_start_alarm(p) ==
  /\ task[p].pc = "start_alarm"
  /\ warned' = (warned \/ ~mutex_is_locked)
  /\ task' = [task EXCEPT ![p].pc = "update", ![p].uop = "READ",
                          ![p].stk = <<"sta_enable">> \o @]
  /\ UNCHANGED <<chip, times, lock, regs, gh, last_set, pm>>

start_alarm_data(data, drv) ==
  LET en == Shl(1, ALARM_ENABLE_SHIFT)
  IN [i \in TimeIdx |->
        CASE i = RTC_SEC      -> BitOr(data[i], en)
          [] i = RTC_MIN      -> BitOr(data[i], en)
          [] i = RTC_HOUR     -> BitOr(data[i], en)
          [] i = RTC_WEEKDAY  -> BitAnd(data[i], BitNot8(ALARM_ENABLE_MASK))
          [] i = RTC_MONTH    -> IF BitAnd(data[i], 15) # 0
                                 THEN BitOr(data[i], en) ELSE data[i]
          [] i = RTC_YEAR     -> IF BitAnd(data[i], drv.mask) # 0
                                 THEN BitOr(data[i], en) ELSE data[i]
          [] i = RTC_MONTHDAY -> IF BitAnd(data[i], 31) # 0
                                 THEN BitOr(data[i], en) ELSE data[i]]

max77686_rtc_start_alarm_enable(p) ==
  /\ task[p].pc = "sta_enable"
  /\ IF task[p].ret < 0
     THEN /\ task' = [task EXCEPT ![p] = ReturnTo(@)]
          /\ UNCHANGED <<gh, regs>>
     ELSE IF drv_data.alarm_enable_reg
     THEN \E r \in BusResults :
            /\ gh' = [gh EXCEPT ![p] =
                        Recorded(@, Tx("regmap_write", "REG_RTC_AE1",
                                       MAX77802_ALARM_ENABLE_VALUE, NoData, r))]
            /\ regs' = IF r < 0 THEN regs
                       ELSE [regs EXCEPT !.ae1 = MAX77802_ALARM_ENABLE_VALUE]
            /\ task' = [task EXCEPT ![p] = CommitOrReturn(@, r)]
     ELSE \E r \in BusResults :
            /\ gh' = [gh EXCEPT ![p] =
                        Recorded(@, Tx("regmap_bulk_read", "REG_ALARM1_SEC", 0,
                                       IF r < 0 THEN NoData ELSE regs.alarm, r))]
            /\ UNCHANGED regs
            /\ task' =
                 IF r < 0
                 THEN [task EXCEPT ![p] = ReturnTo([@ EXCEPT !.ret = r])]
                 ELSE [task EXCEPT
                         ![p].ret = r,
                         ![p].adata = start_alarm_data(regs.alarm, drv_data),
                         ![p].pc = "sta_write"]
  /\ UNCHANGED <<chip, times, lock, last_set, warned, pm>>

max77686_rtc_start_alarm_write(p) ==
  /\ task[p].pc = "sta_write"
  /\ \E r \in BusResults :
       /\ gh' = [gh EXCEPT ![p] =
                   Recorded(@, Tx("regmap_bulk_write", "REG_ALARM1_SEC", 0,
                                  task[p].adata, r))]
       /\ regs' = IF r < 0 THEN regs ELSE [regs EXCEPT !.alarm = task[p].adata]
       /\ task' = [task EXCEPT ![p] = CommitOrReturn(@, r)]
  /\ UNCHANGED <<chip, times, lock, last_set, warned, pm>>

(***************************************************************************)
(* max77686_rtc_set_alarm()                                                *)
(***************************************************************************)
max77686_rtc_set_alarm_call(p) ==
  /\ Running
  /\ task[p].pc = "idle"
  /\ \E tm \in times, enabled \in {0, 1} :
       LET e == max77686_rtc_tm_to_data(tm, drv_data)
       IN task' = [task EXCEPT ![p] =
                     [IdleTask EXCEPT !.op = "set_alarm", !.tm = tm,
                                      !.enabled = enabled,
                                      !.data = e.data, !.ret = e.ret,
                                      !.pc = IF e.ret < 0 THEN "done"
                                             ELSE "sal_lock"]]
  /\ UNCHANGED <<chip, times, lock, regs, gh, last_set, warned, pm>>

max77686_rtc_set_alarm_lock(p) ==
  /\ task[p].pc = "sal_lock"
  /\ mutex_lock(p)
  /\ task' = [task EXCEPT ![p].pc = "stop_alarm", ![p].stk = <<"sal_write">>]
  /\ UNCHANGED <<chip, times, regs, last_set, warned, pm>>

max77686_rtc_set_alarm_write(p) ==
  /\ task[p].pc = "sal_write"
  /\ IF task[p].ret < 0
     THEN /\ task' = [task EXCEPT ![p].pc = "sal_out"]
          /\ UNCHANGED <<gh, regs>>
     ELSE \E r \in BusResults :
            /\ gh' = [gh EXCEPT ![p] =
                        Recorded(@, Tx("regmap_bulk_write", "REG_ALARM1_SEC", 0,
                                       task[p].data, r))]
            /\ regs' = IF r < 0 THEN regs
                       ELSE [regs EXCEPT !.alarm = task[p].data]
            /\ task' = IF r < 0
                       THEN [task EXCEPT ![p].ret = r, ![p].pc = "sal_out"]
                       ELSE [task EXCEPT ![p].ret = r, ![p].pc = "update",
                                         ![p].uop = "WRITE",
                                         ![p].stk = <<"sal_start">>]
  /\ UNCHANGED <<chip, times, lock, last_set, warned, pm>>

max77686_rtc_set_alarm_start(p) ==
  /\ task[p].pc = "sal_start"
  /\ task' = IF task[p].ret >= 0 /\ task[p].enabled # 0
             THEN [task EXCEPT ![p].pc = "start_alarm",
                               ![p].stk = <<"sal_out">>]
             ELSE [task EXCEPT ![p].pc = "sal_out"]
  /\ UNCHANGED <<chip, times, lock, regs, gh, last_set, warned, pm>>

max77686_rtc_set_alarm_out(p) ==
  /\ task[p].pc = "sal_out"
  /\ mutex_unlock(p)
  /\ task' = [task EXCEPT ![p].pc = "done"]
  /\ UNCHANGED <<chip, times, regs, last_set, warned, pm>>

(***************************************************************************)
(* max77686_rtc_alarm_irq_enable()                                         *)
(***************************************************************************)
max77686_rtc_alarm_irq_enable_call(p) ==
  /\ Running
  /\ task[p].pc = "idle"
  /\ \E enabled \in {0, 1} :
       task' = [task EXCEPT ![p] =
                  [IdleTask EXCEPT !.op = "alarm_irq_enable",
                                   !.enabled = enabled, !.pc = "aie_lock"]]
  /\ UNCHANGED <<chip, times, lock, regs, gh, last_set, warned, pm>>

\* a driver whose alarm_irq_enable does not take the mutex
alarm_irq_enable_nolock(p) ==
  /\ task[p].pc = "aie_lock"
  /\ task' = [task EXCEPT ![p].pc = IF task[p].enabled # 0
                                    THEN "start_alarm" ELSE "stop_alarm",
                          ![p].stk = <<"aie_out">>]
  /\ UNCHANGED <<chip, times, lock, gh, regs, last_set, warned, pm>>

max77686_rtc_alarm_irq_enable_lock(p) ==
  /\ task[p].pc = "aie_lock"
  /\ mutex_lock(p)
  /\ task' = [task EXCEPT ![p].pc = IF task[p].enabled # 0
                                    THEN "start_alarm" ELSE "stop_alarm",
                          ![p].stk = <<"aie_out">>]
  /\ UNCHANGED <<chip, times, regs, last_set, warned, pm>>

max77686_rtc_alarm_irq_enable_out(p) ==
  /\ task[p].pc = "aie_out"
  /\ mutex_unlock(p)
  /\ task' = [task EXCEPT ![p].pc = "done"]
  /\ UNCHANGED <<chip, times, regs, last_set, warned, pm>>

(***************************************************************************)
(* The caller takes the result; the task is idle again.                    *)
(***************************************************************************)
Return(p) ==
  /\ task[p].pc = "done"
  /\ task' = [task EXCEPT ![p] = IdleTask]
  /\ gh' = [gh EXCEPT ![p] = NoGhost]
  /\ UNCHANGED <<chip, times, lock, regs, last_set, warned, pm>>

(***************************************************************************)
(* The clock runs: the chip changes its time registers by itself.          *)
(***************************************************************************)
HwTimes ==
  {PowerOnData} \cup
  {tm_to_data_bytes(t, drv_data) : t \in {x \in times : tm_to_data_ret(x, drv_data) = 0}}

HwTick ==
  /\ \E d \in HwTimes \ {regs.time} : regs' = [regs EXCEPT !.time = d]
  /\ last_set' = NoSet
  /\ UNCHANGED <<chip, times, lock, task, gh, warned, pm>>

(***************************************************************************)
(* max77686_rtc_suspend() / max77686_rtc_resume(), called in pairs by the  *)
(* PM core while tasks are frozen.  device_may_wakeup() is what user space *)
(* last set; it cannot change while the system is suspended.               *)
(***************************************************************************)
PmRunning ==
  [state |-> "running", may_wakeup |-> FALSE, irq_depth |-> 0,
   wake_depth |-> 0, wake_call |-> "none", ret |-> 0]

max77686_rtc_suspend ==
  /\ pm.state = "running"
  /\ \A p \in Procs : task[p].pc = "idle"
  /\ \E may \in BOOLEAN, r \in BusResults :
       /\ ~may => r = 0
       /\ pm' = [state |-> "suspended",
                 may_wakeup |-> may,
                 wake_call |-> IF may THEN "enable_irq_wake" ELSE "none",
                 wake_depth |-> IF may /\ r = 0 THEN pm.wake_depth + 1
                                ELSE pm.wake_depth,
                 irq_depth |-> IF ~drv_data.rtc_irq_from_platform
                               THEN pm.irq_depth + 1 ELSE pm.irq_depth,
                 ret |-> r]
  /\ UNCHANGED <<chip, times, lock, regs, task, gh, last_set, warned>>

\* a resume that enables the main IRQ only when the device may wake up
resume_irq_inside_wakeup ==
  /\ pm.state = "suspended"
  /\ pm' = [state |-> "resumed",
            may_wakeup |-> pm.may_wakeup,
            irq_depth |-> IF ~drv_data.rtc_irq_from_platform /\ pm.may_wakeup
                          THEN pm.irq_depth - 1 ELSE pm.irq_depth,
            wake_call |-> IF pm.may_wakeup THEN "disable_irq_wake" ELSE "none",
            wake_depth |-> IF pm.may_wakeup /\ pm.wake_depth > 0
                           THEN pm.wake_depth - 1 ELSE pm.wake_depth,
            ret |-> 0]
  /\ UNCHANGED <<chip, times, lock, regs, task, gh, last_set, warned>>

max77686_rtc_resume ==
  /\ pm.state = "suspended"
  /\ pm' = [state |-> "resumed",
            may_wakeup |-> pm.may_wakeup,
            irq_depth |-> IF ~drv_data.rtc_irq_from_platform
                          THEN pm.irq_depth - 1 ELSE pm.irq_depth,
            wake_call |-> IF pm.may_wakeup THEN "disable_irq_wake" ELSE "none",
            wake_depth |-> IF pm.may_wakeup /\ pm.wake_depth > 0
                           THEN pm.wake_depth - 1 ELSE pm.wake_depth,
            ret |-> 0]
  /\ UNCHANGED <<chip, times, lock, regs, task, gh, last_set, warned>>

\* the PM core thaws the tasks
PmThaw ==
  /\ pm.state = "resumed"
  /\ pm' = [PmRunning EXCEPT !.irq_depth = pm.irq_depth,
                             !.wake_depth = pm.wake_depth]
  /\ UNCHANGED <<chip, times, lock, regs, task, gh, last_set, warned>>

(***************************************************************************)
(* Specifications.                                                         *)
(***************************************************************************)
\* 2000-01-01 00:00:00 Saturday: the first year the chips without an
\* alarm-enable register accept
T2000 == Tm(0, 0, 0, 6, 1, 0, 100)

\* 1999-12-31 23:59:59 Friday
T1999 == Tm(59, 59, 23, 5, 31, 11, 99)

\* the callers of one run pass one of these sets of times
SpecTimes == {{T2000}, {T1999}}

InitWith(tss) ==
  /\ chip \in Chips
  /\ times \in tss
  /\ lock = NoOwner
  /\ regs = [time |-> PowerOnData, alarm |-> PowerOnData, ae1 |-> 0]
  /\ task = [p \in Procs |-> IdleTask]
  /\ gh = [p \in Procs |-> NoGhost]
  /\ last_set = NoSet
  /\ warned = FALSE
  /\ pm = PmRunning

Init == InitWith(SpecTimes)

Step(p) ==
  \/ max77686_rtc_update(p)
  \/ max77686_rtc_update_usleep(p)
  \/ max77686_rtc_read_time_read(p)
  \/ max77686_rtc_read_time_out(p)
  \/ max77686_rtc_set_time_write(p)
  \/ max77686_rtc_set_time_out(p)
  \/ max77686_rtc_read_alarm_read(p)
  \/ max77686_rtc_read_alarm_ae1(p)
  \/ max77686_rtc_read_alarm_pending(p)
  \/ max77686_rtc_read_alarm_out(p)
  \/ max77686_rtc_stop_alarm(p)
  \/ max77686_rtc_stop_alarm_disable(p)
  \/ max77686_rtc_stop_alarm_write(p)
  \/ max77686_rtc_start_alarm(p)
  \/ max77686_rtc_start_alarm_enable(p)
  \/ max77686_rtc_start_alarm_write(p)
  \/ max77686_rtc_set_alarm_write(p)
  \/ max77686_rtc_set_alarm_start(p)
  \/ max77686_rtc_set_alarm_out(p)
  \/ max77686_rtc_alarm_irq_enable_out(p)

Lock(p) ==
  \/ max77686_rtc_read_time_lock(p)
  \/ max77686_rtc_set_time_lock(p)
  \/ max77686_rtc_read_alarm_lock(p)
  \/ max77686_rtc_set_alarm_lock(p)
  \/ max77686_rtc_alarm_irq_enable_lock(p)

Call(p) ==
  \/ max77686_rtc_read_time_call(p)
  \/ max77686_rtc_set_time_call(p)
  \/ max77686_rtc_read_alarm_call(p)
  \/ max77686_rtc_set_alarm_call(p)
  \/ max77686_rtc_alarm_irq_enable_call(p)

\* a finished operation returns to its caller before any other task runs
Returning == \E q \in Procs : task[q].pc = "done"

Next ==
  \/ \E p \in Procs : Return(p)
  \/ ~Returning /\ \E p \in Procs : Call(p) \/ Lock(p) \/ Step(p)
  \/ HwTick
  \/ max77686_rtc_suspend
  \/ max77686_rtc_resume
  \/ PmThaw

Spec == Init /\ [][Next]_vars

(***************************************************************************)
(* Fair scheduling: a task that can run infinitely often does run, and the *)
(* mutex is handed to every waiter eventually.                             *)
(***************************************************************************)
Proceed(p) == Lock(p) \/ Step(p)

Fairness == \A p \in Procs : SF_vars(~Returning /\ Proceed(p)) /\ WF_vars(Return(p))

FairSpec == Spec /\ Fairness

(***************************************************************************)
(* Encode/decode: one caller sets and reads the time, for every time of    *)
(* CodecTimes (each field at its least and greatest value and between).    *)
(***************************************************************************)
CodecYears == {0, 99, 100, 101, 199}

CodecTimes ==
  {Tm(s, m, h, w, d, mo, y) :
     s \in {0, 59}, m \in {0, 59}, h \in {0, 23}, w \in {0, 3, 6},
     d \in {1, 16, 31}, mo \in {0, 7, 11}, y \in CodecYears}

CodecInit == InitWith({{t} : t \in CodecTimes})

CodecNext ==
  \/ max77686_rtc_set_time_call(1)
  \/ max77686_rtc_set_time_lock(1)
  \/ max77686_rtc_set_time_write(1)
  \/ max77686_rtc_set_time_out(1)
  \/ max77686_rtc_read_time_call(1)
  \/ max77686_rtc_read_time_lock(1)
  \/ max77686_rtc_read_time_read(1)
  \/ max77686_rtc_read_time_out(1)
  \/ max77686_rtc_update(1)
  \/ max77686_rtc_update_usleep(1)
  \/ Return(1)
  \/ HwTick

CodecSpec == CodecInit /\ [][CodecNext]_vars

(***************************************************************************)
(* The alarm operations alone: callers set, enable, disable and read the   *)
(* alarm.  The alarm time is 2000-01-01 or 2128-01-01; struct rtc_time     *)
(* holds either, and max77686_rtc_tm_to_data() returns 0 for both.         *)
(***************************************************************************)
\* 2128-01-01 00:00:00: tm_year - 100 is 128, bit 7 of the year byte
T2128 == Tm(0, 0, 0, 4, 1, 0, 228)

AlarmTimes == {{T2000}, {T2128}}

AlarmInit == InitWith(AlarmTimes)

AlarmCall(p) ==
  \/ max77686_rtc_read_alarm_call(p)
  \/ max77686_rtc_set_alarm_call(p)
  \/ max77686_rtc_alarm_irq_enable_call(p)

AlarmLock(p) ==
  \/ max77686_rtc_read_alarm_lock(p)
  \/ max77686_rtc_set_alarm_lock(p)
  \/ max77686_rtc_alarm_irq_enable_lock(p)

AlarmStep(p) ==
  \/ max77686_rtc_update(p)
  \/ max77686_rtc_update_usleep(p)
  \/ max77686_rtc_read_alarm_read(p)
  \/ max77686_rtc_read_alarm_ae1(p)
  \/ max77686_rtc_read_alarm_pending(p)
  \/ max77686_rtc_read_alarm_out(p)
  \/ max77686_rtc_stop_alarm(p)
  \/ max77686_rtc_stop_alarm_disable(p)
  \/ max77686_rtc_stop_alarm_write(p)
  \/ max77686_rtc_start_alarm(p)
  \/ max77686_rtc_start_alarm_enable(p)
  \/ max77686_rtc_start_alarm_write(p)
  \/ max77686_rtc_set_alarm_write(p)
  \/ max77686_rtc_set_alarm_start(p)
  \/ max77686_rtc_set_alarm_out(p)
  \/ max77686_rtc_alarm_irq_enable_out(p)

AlarmNext ==
  \/ \E p \in Procs : Return(p)
  \/ ~Returning /\ \E p \in Procs : AlarmCall(p) \/ AlarmLock(p) \/ AlarmStep(p)

AlarmSpec == AlarmInit /\ [][AlarmNext]_vars

(***************************************************************************)
(* Vocabulary of the properties.                                           *)
(***************************************************************************)
Done(p) == task[p].pc = "done"

LockLabels == {"rt_lock", "st_lock", "ra_lock", "sal_lock", "aie_lock"}

Waiting(p) == task[p].pc \in LockLabels

\* p has issued a bus transaction and has not yet released the mutex
InSection(p) == Len(gh[p].log) > 0 /\ task[p].pc \notin {"idle", "done"}

LastTx(p) == gh[p].log[Len(gh[p].log)]

SameTime(a, b) ==
  /\ a.tm_sec = b.tm_sec /\ a.tm_min = b.tm_min /\ a.tm_hour = b.tm_hour
  /\ a.tm_wday = b.tm_wday /\ a.tm_mday = b.tm_mday /\ a.tm_mon = b.tm_mon
  /\ a.tm_year = b.tm_year

(***************************************************************************)
(* C1.  The register transactions of the five operations are serialized by *)
(* the device mutex: a caller that has issued a bus transaction and not    *)
(* yet released holds the mutex, and no other caller is between its first  *)
(* transaction and its release at the same time (the update-register write *)
(* and its settle wait included).                                          *)
(***************************************************************************)
C1_Serialized ==
  \A p \in Procs :
    InSection(p) =>
      /\ lock = p
      /\ \A q \in Procs \ {p} : ~InSection(q)

\* a caller waits for the mutex while another is in the middle of its
\* transactions (in the settle wait of its second update-register write)
C1_Witness ==
  \E p, q \in Procs :
    /\ p # q
    /\ Waiting(q)
    /\ task[p].pc = "usleep"
    /\ Len(gh[p].log) >= 3

(***************************************************************************)
(* C2.  As claimed: every negative value an operation returns is the       *)
(* failure code of a bus transaction that failed during that call.         *)
(***************************************************************************)
C2_Original ==
  \A p \in Procs :
    (Done(p) /\ task[p].ret < 0) =>
      \E i \in 1 .. Len(gh[p].log) : gh[p].log[i].ret = task[p].ret

(***************************************************************************)
(* C2, amended.  Every negative value an operation returns is the failure  *)
(* code of a bus transaction that failed during that call, except that     *)
(* set_time and set_alarm return -EINVAL of their own, before any bus      *)
(* transaction, when tm_year < 100 on a chip without a separate            *)
(* alarm-enable register.                                                  *)
(***************************************************************************)
C2_Amended ==
  \A p \in Procs :
    (Done(p) /\ task[p].ret < 0) =>
      \/ \E i \in 1 .. Len(gh[p].log) : gh[p].log[i].ret = task[p].ret
      \/ /\ task[p].op \in {"set_time", "set_alarm"}
         /\ ~drv_data.alarm_enable_reg
         /\ task[p].tm.tm_year < 100
         /\ task[p].ret = -EINVAL
         /\ gh[p].log = <<>>

\* set_alarm returns the code of its seventh transaction, which failed
C2_Witness ==
  \E p \in Procs :
    /\ Done(p)
    /\ task[p].op = "set_alarm"
    /\ Len(gh[p].log) = 7
    /\ task[p].ret = -121
    /\ LastTx(p).ret = -121

(***************************************************************************)
(* C3.  No retries: every transaction before the last one of an operation  *)
(* succeeded (so a failed transaction is followed by no other), an         *)
(* operation that ends after a failed transaction returns its code, and no *)
(* operation issues more than ten transactions.                            *)
(***************************************************************************)
C3_NoRetry ==
  \A p \in Procs :
    LET l == gh[p].log
    IN /\ \A i \in 1 .. (Len(l) - 1) : l[i].ret = 0
       /\ Len(l) <= 10
       /\ (Done(p) /\ Len(l) > 0 /\ l[Len(l)].ret < 0) =>
            task[p].ret = l[Len(l)].ret

\* alarm_irq_enable ends after its third transaction failed
C3_Witness ==
  \E p \in Procs :
    /\ Done(p)
    /\ task[p].op = "alarm_irq_enable"
    /\ Len(gh[p].log) = 3
    /\ LastTx(p).ret < 0

(***************************************************************************)
(* C4.  Every successful write of UDR or RBUDR to the update register is   *)
(* followed by a wait of at least the chip's delay (16000 us; 200 us on    *)
(* MAX77802) before the operation issues its next transaction or releases  *)
(* the mutex; a failed update-register write is followed by no wait.       *)
(***************************************************************************)
ChipDelay == IF chip = "max77802-rtc" THEN 200 ELSE 16000

C4_SettleState ==
  \A p \in Procs :
    /\ gh[p].settle > 0 =>
         /\ gh[p].settle >= ChipDelay
         /\ LastTx(p).fn = "regmap_update_bits"
         /\ LastTx(p).ret = 0
         /\ LastTx(p).val \in {Shl(1, RTC_UDR_SHIFT), Shl(1, RTC_RBUDR_SHIFT)}
    /\ (Len(gh[p].log) > 0 /\ LastTx(p).fn = "regmap_update_bits"
          /\ LastTx(p).ret < 0) =>
         (gh[p].settle = 0 /\ task[p].pc # "usleep")

C4_SettleStep ==
  \A p \in Procs :
    /\ (Len(gh'[p].log) > Len(gh[p].log) \/ gh'[p].rel > gh[p].rel) =>
         gh[p].settle # -1
    /\ (gh'[p].settle > 0 /\ gh'[p].settle # gh[p].settle) =>
         gh[p].settle = -1

C4_Settle == [](C4_SettleState) /\ [][C4_SettleStep]_vars

\* an operation has waited after its second successful update-register write
C4_Witness ==
  \E p \in Procs :
    /\ gh[p].settle >= ChipDelay
    /\ Len(gh[p].log) >= 4
    /\ LastTx(p).val = Shl(1, RTC_UDR_SHIFT)

(***************************************************************************)
(* C5.  Nothing is cached: read_time and read_alarm first write RBUDR and  *)
(* only after it succeeded bulk-read the time (alarm-1) registers, holding *)
(* the mutex throughout; the time they return is decoded from the bytes of *)
(* that read; if the RBUDR write fails no register is read and the output  *)
(* structure is left unwritten.                                            *)
(***************************************************************************)
ReadReg(op) == IF op = "read_time" THEN "REG_RTC_SEC" ELSE "REG_ALARM1_SEC"

C5_NothingCached ==
  \A p \in Procs :
    task[p].op \in {"read_time", "read_alarm"} =>
      LET l == gh[p].log
          t == task[p]
      IN /\ Len(l) >= 1 =>
              /\ l[1].fn = "regmap_update_bits"
              /\ l[1].reg = "REG_RTC_UPDATE0"
              /\ l[1].val = Shl(1, RTC_RBUDR_SHIFT)
              /\ gh[p].acq = 1
              /\ ~Done(p) => (gh[p].rel = 0 /\ lock = p)
         /\ Len(l) >= 2 =>
              /\ l[1].ret = 0
              /\ l[2].fn = "regmap_bulk_read"
              /\ l[2].reg = ReadReg(t.op)
         /\ t.out.tm # NoTm =>
              /\ Len(l) >= 2
              /\ l[2].ret = 0
              /\ t.out.tm = max77686_rtc_data_to_tm(l[2].data, drv_data)
         /\ (Done(p) /\ t.ret = 0) => t.out.tm # NoTm
         /\ (Len(l) >= 1 /\ l[1].ret < 0) => (Len(l) = 1 /\ t.out = NoOut)

\* read_alarm returns the alarm another call has set and enabled
C5_Witness ==
  \E p \in Procs :
    /\ Done(p)
    /\ task[p].op = "read_alarm"
    /\ task[p].ret = 0
    /\ task[p].out.tm # NoTm
    /\ SameTime(task[p].out.tm, T2000)
    /\ task[p].out.enabled = 1

(***************************************************************************)
(* C6.  Encoding and decoding are inverse: a read_time that reads the      *)
(* registers a successful set_time(t) left, unchanged since, returns the   *)
(* seven fields of t; the month is stored as tm_mon + 1, the weekday as    *)
(* 1 << tm_wday, the year as tm_year - 100 on chips without an             *)
(* alarm-enable register; every time of the supported range is accepted.   *)
(***************************************************************************)
InRange(t) ==
  IF drv_data.alarm_enable_reg THEN t.tm_year \in 0 .. 199
  ELSE t.tm_year \in 100 .. 199

C6_RoundTrip ==
  /\ \A p \in Procs :
       (Done(p) /\ task[p].op = "read_time" /\ task[p].ret = 0
          /\ gh[p].expect # NoTm) =>
         SameTime(task[p].out.tm, gh[p].expect)
  /\ last_set.tm # NoTm =>
       LET t == last_set.tm
       IN /\ InRange(t)
          /\ regs.time[RTC_MONTH] = t.tm_mon + 1
          /\ regs.time[RTC_WEEKDAY] = Shl(1, t.tm_wday)
          /\ regs.time[RTC_YEAR] = IF drv_data.alarm_enable_reg THEN t.tm_year
                                   ELSE t.tm_year - 100
  /\ \A t \in times : InRange(t) => tm_to_data_ret(t, drv_data) = 0

\* read_time returns 2099-12-31 23:59:59, which set_time wrote
C6_Witness ==
  \E p \in Procs :
    /\ Done(p)
    /\ task[p].op = "read_time"
    /\ task[p].ret = 0
    /\ chip = "max77686-rtc"
    /\ gh[p].expect # NoTm
    /\ gh[p].expect = Tm(59, 59, 23, 6, 31, 11, 199)

(***************************************************************************)
(* C7.  On chips without an alarm-enable register set_time and set_alarm   *)
(* with tm_year < 100 return -EINVAL without taking the mutex and without  *)
(* a bus transaction; tm_year = 100 is accepted and stored as year 0; on   *)
(* MAX77802 no year is rejected.                                           *)
(***************************************************************************)
FromBus(p) == Len(gh[p].log) > 0 /\ LastTx(p).ret = task[p].ret

C7_Pre2000 ==
  \A p \in Procs :
    task[p].op \in {"set_time", "set_alarm"} =>
      LET t == task[p]
      IN IF ~drv_data.alarm_enable_reg
         THEN /\ t.tm.tm_year < 100 =>
                   /\ Done(p)
                   /\ t.ret = -EINVAL
                   /\ gh[p].log = <<>>
                   /\ gh[p].acq = 0
              /\ t.tm.tm_year = 100 =>
                   /\ t.data[RTC_YEAR] = 0
                   /\ t.ret < 0 => FromBus(p)
                   /\ Done(p) => gh[p].acq = 1
         ELSE /\ t.ret < 0 => FromBus(p)
              /\ Done(p) => gh[p].acq = 1

\* set_time(1999-12-31) is rejected on MAX77620
C7_Witness ==
  \E p \in Procs :
    /\ chip = "max77620-rtc"
    /\ Done(p)
    /\ task[p].op = "set_time"
    /\ task[p].tm.tm_year = 99
    /\ task[p].ret = -EINVAL

(***************************************************************************)
(* C8.  max77686_rtc_stop_alarm and max77686_rtc_start_alarm run only      *)
(* while the caller holds the device mutex: the "should have mutex locked" *)
(* warning is never printed.                                               *)
(***************************************************************************)
AlarmLabels ==
  {"stop_alarm", "sa_disable", "sa_write", "start_alarm", "sta_enable",
   "sta_write"}

InAlarm(p) ==
  \/ task[p].pc \in AlarmLabels
  \/ /\ task[p].pc \in {"update", "usleep"}
     /\ Head(task[p].stk) \in {"sa_disable", "sta_enable"}

C8_AlarmLocked ==
  /\ ~warned
  /\ \A p \in Procs : InAlarm(p) => lock = p

\* start_alarm, called by set_alarm, is about to write the alarm registers
C8_Witness ==
  \E p \in Procs :
    /\ task[p].pc = "sta_write"
    /\ task[p].op = "set_alarm"
    /\ mutex_is_locked

(***************************************************************************)
(* C9.  Every operation that takes the device mutex releases it exactly    *)
(* once before it returns, on every path; when no operation is in progress *)
(* the mutex is free; under fair scheduling every caller waiting for the   *)
(* mutex eventually holds it.                                              *)
(***************************************************************************)
C9_Safety ==
  /\ \A p \in Procs :
       /\ gh[p].acq <= 1
       /\ gh[p].rel <= gh[p].acq
       /\ Done(p) => gh[p].rel = gh[p].acq
       /\ (Done(p) /\ Len(gh[p].log) > 0) => gh[p].acq = 1
       /\ (gh[p].acq = 1 /\ gh[p].rel = 0) <=> lock = p
  /\ (\A p \in Procs : task[p].pc \in {"idle", "done"}) => lock = NoOwner

C9_Released ==
  /\ [](C9_Safety)
  /\ \A p \in Procs : Waiting(p) ~> (lock = p)

\* an operation has released the mutex on an error path while another waits
C9_Witness ==
  \E p, q \in Procs :
    /\ p # q
    /\ Done(p)
    /\ task[p].ret < 0
    /\ gh[p].acq = 1
    /\ gh[p].rel = 1
    /\ Waiting(q)

(***************************************************************************)
(* C10.  With the parent's shared IRQ as main IRQ (every chip but          *)
(* MAX77620) the IRQ is disabled between suspend and resume and enabled    *)
(* again by resume, so its disable depth is the initial one after every    *)
(* suspend/resume pair; on MAX77620 the depth never changes.  IRQ wake is  *)
(* enabled in suspend and disabled in resume exactly when the device may   *)
(* wake the system.                                                        *)
(***************************************************************************)
C10_SuspendResume ==
  /\ drv_data.rtc_irq_from_platform <=> chip = "max77620-rtc"
  /\ IF drv_data.rtc_irq_from_platform
     THEN pm.irq_depth = 0
     ELSE pm.irq_depth = IF pm.state = "suspended" THEN 1 ELSE 0
  /\ pm.state = "suspended" =>
       (pm.wake_call = "enable_irq_wake" <=> pm.may_wakeup)
  /\ pm.state = "resumed" =>
       (pm.wake_call = "disable_irq_wake" <=> pm.may_wakeup)

\* resumed, after a suspend that did not enable IRQ wake
C10_Witness ==
  /\ chip = "max77686-rtc"
  /\ pm.state = "resumed"
  /\ ~pm.may_wakeup
  /\ pm.wake_call = "none"
  /\ pm.irq_depth = 0

(***************************************************************************)
(* C11.  set_alarm never rewrites the alarm time while the alarm is armed. *)
(* The bus transactions of one set_alarm call are, in this order and each  *)
(* only after the one before succeeded: the disable step (RBUDR; on chips  *)
(* without an alarm-enable register the read of the alarm registers and    *)
(* the write of them with bit 7 cleared, else the write of 0 to AE1; UDR), *)
(* the write of the seven alarm-1 time registers and UDR, and, only if     *)
(* alrm->enabled is non-zero, the enable step (RBUDR; read and write with  *)
(* the enable bits set, or the write of 0x77 to AE1; UDR).  A call that    *)
(* returned 0 made all of them, a call that failed stopped at the failed   *)
(* one.  From the disable write on, as long as the call has not written    *)
(* the enable bits, the alarm is disabled: no alarm register has bit 7     *)
(* set (AE1 is 0 on MAX77802).                                             *)
(***************************************************************************)
SetAlarmSteps(drv) ==
  IF drv.alarm_enable_reg
  THEN <<"rbudr", "ae_off", "udr", "time", "udr", "rbudr", "ae_on", "udr">>
  ELSE <<"rbudr", "read", "clear", "udr", "time", "udr",
         "rbudr", "read", "set", "udr">>

\* the steps up to the commit of the alarm time
TimeSteps(drv) == IF drv.alarm_enable_reg THEN 5 ELSE 6

\* the i-th transaction of p's call is the i-th step of set_alarm
IsStep(p, i) ==
  LET log  == gh[p].log
      e    == log[i]
      kind == SetAlarmSteps(drv_data)[i]
  IN CASE kind = "rbudr" ->
            /\ e.fn = "regmap_update_bits" /\ e.reg = "REG_RTC_UPDATE0"
            /\ e.val = Shl(1, RTC_RBUDR_SHIFT)
       [] kind = "udr" ->
            /\ e.fn = "regmap_update_bits" /\ e.reg = "REG_RTC_UPDATE0"
            /\ e.val = Shl(1, RTC_UDR_SHIFT)
       [] kind = "read" ->
            e.fn = "regmap_bulk_read" /\ e.reg = "REG_ALARM1_SEC"
       [] kind = "clear" ->
            /\ e.fn = "regmap_bulk_write" /\ e.reg = "REG_ALARM1_SEC"
            /\ e.data = stop_alarm_data(log[i - 1].data)
       [] kind = "time" ->
            /\ e.fn = "regmap_bulk_write" /\ e.reg = "REG_ALARM1_SEC"
            /\ e.data = tm_to_data_bytes(task[p].tm, drv_data)
       [] kind = "set" ->
            /\ e.fn = "regmap_bulk_write" /\ e.reg = "REG_ALARM1_SEC"
            /\ e.data = start_alarm_data(log[i - 1].data, drv_data)
       [] kind = "ae_off" ->
            e.fn = "regmap_write" /\ e.reg = "REG_RTC_AE1" /\ e.val = 0
       [] kind = "ae_on" ->
            /\ e.fn = "regmap_write" /\ e.reg = "REG_RTC_AE1"
            /\ e.val = MAX77802_ALARM_ENABLE_VALUE

\* p's call has made a step of one of these kinds, and it succeeded
Written(p, kinds) ==
  \E i \in 1..Len(gh[p].log) :
    /\ i <= Len(SetAlarmSteps(drv_data))
    /\ SetAlarmSteps(drv_data)[i] \in kinds
    /\ gh[p].log[i].ret = 0

AlarmArmed ==
  IF drv_data.alarm_enable_reg THEN regs.ae1 # 0
  ELSE alarm_enabled_in_data(regs.alarm) # 0

C11_Order(p) ==
  LET log     == gh[p].log
      n       == Len(log)
      planned == IF task[p].enabled # 0 THEN Len(SetAlarmSteps(drv_data))
                 ELSE TimeSteps(drv_data)
  IN /\ n <= planned
     /\ \A i \in 1..n : IsStep(p, i) /\ (i < n => log[i].ret = 0)
     /\ Done(p) /\ task[p].ret >= 0 => n = planned /\ log[n].ret = 0
     /\ Done(p) /\ task[p].ret < 0 /\ n > 0 => log[n].ret = task[p].ret

C11_Disarmed(p) ==
  Written(p, {"clear", "ae_off"}) /\ ~Written(p, {"set", "ae_on"})
    => ~AlarmArmed

C11_SetAlarmOrder ==
  \A p \in Procs :
    task[p].op = "set_alarm" => C11_Order(p) /\ C11_Disarmed(p)

\* set_alarm with alrm->enabled = 0 returned 0 after the disable step and
\* the write of the time, and an alarm register has bit 7 set
C11_Witness ==
  \E p \in Procs :
    /\ task[p].op = "set_alarm"
    /\ Done(p)
    /\ task[p].ret = 0
    /\ task[p].enabled = 0
    /\ Len(gh[p].log) = TimeSteps(drv_data)
    /\ AlarmArmed

=============================================================================
